---- MODULE Spec2Model ----
(***************************************************************************)
(* Model of gentle/language_model.py: the two builders of the textual      *)
(* transducer (make_bigram_lm_fst, make_transcript_fst) and the pipeline   *)
(* that hands the text to the external graph compiler                      *)
(* (make_bigram_language_model).                                           *)
(*                                                                         *)
(* Words are strings.  Python orders strings by code point; the order of   *)
(* the words used here is listed in CodePointOrder.  A weight is kept in   *)
(* units of 10^-6, the precision of the '%f' conversion of line 90.        *)
(***************************************************************************)
EXTENDS Integers, Sequences, FiniteSets, TLC

\* ---------------------------------------------------------------- bounds
\* Total number of words over all sequences of one input.
MaxWords == 4
\* Number of sequences of one input.
MaxSeqs == 3

\* ------------------------------------------------------------- constants
OOV_TERM == "<unk>"

\* The words an input sequence is drawn from.
Vocabulary == {"hello", "world"}

\* align_cuts.py hands this set to the aligner as the 'disfluencies' kwarg.
disfluencies == {"uh", "um"}

\* '<' (60) sorts before every lower-case letter.
CodePointOrder == <<"<unk>", "hello", "uh", "um", "world">>

Rank(w) == CHOOSE i \in 1..Len(CodePointOrder) : CodePointOrder[i] = w

\* str.__lt__ on the words of the model.
WordLess(a, b) == Rank(a) < Rank(b)

\* sorted(words): the words of a set in increasing code-point order.
RECURSIVE sorted(_)
sorted(S) ==
    IF S = {} THEN <<>>
    ELSE LET m == CHOOSE x \in S : \A y \in S : ~WordLess(y, x)
         IN  <<m>> \o sorted(S \ {m})

\* ---------------------------------------------------------------- inputs
SeqsUpTo(n) == UNION {[1..k -> Vocabulary] : k \in 0..n}

\* Lists of at most k sequences holding at most budget words in all.
RECURSIVE SeqLists(_, _)
SeqLists(k, budget) ==
    IF k = 0 THEN {<<>>}
    ELSE {<<>>} \cup
         UNION {{<<s>> \o rest : rest \in SeqLists(k - 1, budget - Len(s))}
                : s \in SeqsUpTo(budget)}

\* Sequences that hold the OOV token or a disfluency word themselves.
EdgeLists ==
    { << <<OOV_TERM, "hello">> >>,
      << <<"hello", OOV_TERM>>, <<"uh">> >>,
      << <<"uh", "hello">>, <<>>, <<"hello", "um", "world">> >> }

\* The word_sequences argument: a list of lists, or one flat list of words.
Arguments ==
    {[kind |-> "lists", words |-> <<>>, seqs |-> l]
        : l \in SeqLists(MaxSeqs, MaxWords) \cup EdgeLists}
    \cup {[kind |-> "flat", words |-> s, seqs |-> <<>>] : s \in SeqsUpTo(MaxWords) \ {<<>>}}

\* The keyword arguments; 'disfluencies' defaults to the empty list.
Kwargs ==
    [conservative : BOOLEAN, disfluency : BOOLEAN, disfluencies : {{}, disfluencies}]

Entries == {"make_bigram_lm_fst", "make_transcript_fst", "make_bigram_language_model"}

\* Lines 32-33 and 111-112: an empty list, or a list whose first element is
\* not a list, is wrapped into a one-element list.
Normalize(arg) ==
    IF arg.kind = "flat" THEN <<arg.words>>
    ELSE IF Len(arg.seqs) = 0 THEN << <<>> >>
    ELSE arg.seqs

\* ------------------------------------------------- make_bigram_lm_fst
\* InitialBigrams without the seed: OOV starts with no successor.
InitialBigramsUnseeded == (OOV_TERM :> {})

\* Line 39.
InitialBigrams == (OOV_TERM :> {OOV_TERM})

\* bigrams.setdefault(k, set()).update(vals), for every k of keys at once.
AddAll(b, keys, vals) ==
    [k \in DOMAIN b \cup keys |->
        (IF k \in DOMAIN b THEN b[k] ELSE {}) \cup (IF k \in keys THEN vals ELSE {})]

\* Lines 45-53: the first word of a sequence is a successor of OOV.
ScanStart(b, seq, kw) ==
    LET prev_word == seq[1]
        b1 == AddAll(b, {OOV_TERM}, {prev_word})
    IN  IF kw.disfluency
        THEN AddAll(AddAll(b1, {OOV_TERM}, kw.disfluencies),
                    kw.disfluencies, {prev_word, OOV_TERM})
        ELSE b1

\* Lines 56-65: one pair of consecutive words.
ScanPair(b, prev_word, word, kw) ==
    LET b1 == AddAll(b, {prev_word}, {word})
        b2 == IF kw.conservative THEN AddAll(b1, {prev_word}, {OOV_TERM}) ELSE b1
    IN  IF kw.disfluency
        THEN AddAll(AddAll(b2, {prev_word}, kw.disfluencies), kw.disfluencies, {word})
        ELSE b2

\* Lines 55-67: the walk over word_sequence[1:], from position i on.
RECURSIVE ScanPairs(_, _, _, _)
ScanPairs(b, seq, i, kw) ==
    IF i > Len(seq) THEN b
    ELSE ScanPairs(ScanPair(b, seq[i - 1], seq[i], kw), seq, i + 1, kw)

\* ScanEnd without line 70: the last word gets no successor.
ScanEndDropped(b, seq) == b

\* Line 70: the last word of a sequence has OOV as a successor.
ScanEnd(b, seq) == AddAll(b, {seq[Len(seq)]}, {OOV_TERM})

\* Lines 41-70: the body of the loop for one sequence.
ScanSequence(b, seq, kw) ==
    IF Len(seq) = 0 THEN b
    ELSE ScanEnd(ScanPairs(ScanStart(b, seq, kw), seq, 2, kw), seq)

\* node_ids is a dict: its entries in insertion order.
HasKey(ids, word) == \E i \in 1..Len(ids) : ids[i].word = word

Lookup(ids, word) == ids[CHOOSE i \in 1..Len(ids) : ids[i].word = word].id

\* get_node_id with len(node_ids) for len(node_ids) + 1.
get_node_id_len(ids, word) ==
    LET node_id == IF HasKey(ids, word) THEN Lookup(ids, word) ELSE Len(ids)
    IN  [ids |-> IF HasKey(ids, word) THEN ids
                 ELSE Append(ids, [word |-> word, id |-> node_id]),
         id |-> node_id]

\* Lines 73-76: the id of a word, assigned on first use.
get_node_id(ids, word) ==
    LET node_id == IF HasKey(ids, word) THEN Lookup(ids, word) ELSE Len(ids) + 1
    IN  [ids |-> IF HasKey(ids, word) THEN ids
                 ELSE Append(ids, [word |-> word, id |-> node_id]),
         id |-> node_id]

\* round(10^6 * ln n), n = 1..6: what '%f' prints of -math.log(1.0 / n)
\* (for n = 1 it prints -0.000000, the weight 0).
LnMicro == <<0, 693147, 1098612, 1386294, 1609438, 1791759>>

\* EdgeWeight with the successors counted one too many.
EdgeWeightOffByOne(successors) == LnMicro[Cardinality(successors) + 1]

\* Lines 83-86.
EdgeWeight(successors) ==
    IF Cardinality(successors) > 0 THEN LnMicro[Cardinality(successors)] ELSE 0

\* Lines 79-89: the words handed to get_node_id, in the order of the calls:
\* each source word of froms[i..], followed by its sorted successors.
RECURSIVE WalkOrder(_, _, _)
WalkOrder(b, froms, i) ==
    IF i > Len(froms) THEN <<>>
    ELSE <<froms[i]>> \o sorted(b[froms[i]]) \o WalkOrder(b, froms, i + 1)

\* node_ids after the calls get_node_id(uses[i]), get_node_id(uses[i+1]), ...
RECURSIVE AssignIds(_, _, _)
AssignIds(ids, uses, i) ==
    IF i > Len(uses) THEN ids
    ELSE AssignIds(get_node_id(ids, uses[i]).ids, uses, i + 1)

\* Lines 80-91: the lines of one source word.  A call of get_node_id returns
\* the id node_ids holds for the word from then on (line 75 stores what line
\* 74 read), so every line shows the ids of the final node_ids.
EmitWord(ids, b, from_word) ==
    LET tos == sorted(b[from_word])
    IN  [j \in 1..Len(tos) |->
            <<get_node_id(ids, from_word).id, get_node_id(ids, tos[j]).id,
              tos[j], tos[j], EdgeWeight(b[from_word])>>]

\* Lines 79-91: the lines of the source words froms[i..].
RECURSIVE EmitWords(_, _, _, _)
EmitWords(ids, b, froms, i) ==
    IF i > Len(froms) THEN <<>>
    ELSE EmitWord(ids, b, froms[i]) \o EmitWords(ids, b, froms, i + 1)

\* Lines 72-95: the text of the bigram graph, and the node ids behind it.
BigramText(b) ==
    LET froms == sorted(DOMAIN b)
        ids == AssignIds(<<>>, WalkOrder(b, froms, 1), 1)
    IN  [edges |-> EmitWords(ids, b, froms, 1), final |-> Len(ids), ids |-> ids]

\* Lines 41-70: the loop over the sequences seqs[i..].
RECURSIVE ScanSequences(_, _, _, _)
ScanSequences(b, seqs, i, kw) ==
    IF i > Len(seqs) THEN b
    ELSE ScanSequences(ScanSequence(b, seqs[i], kw), seqs, i + 1, kw)

\* make_bigram_lm_fst as a function of its arguments.
BigramFst(arg_, kw) ==
    LET text == BigramText(ScanSequences(InitialBigrams, Normalize(arg_), 1, kw))
    IN  [edges |-> text.edges, final |-> text.final]

\* ------------------------------------------------ make_transcript_fst
\* Line 147: the weight 2.0 of a literal-word edge.
WordWeight == 2000000

\* sum([len(s) - 1 for s in seqs[i..]]).
RECURSIVE SumLenMinusOne(_, _)
SumLenMinusOne(seqs, i) ==
    IF i > Len(seqs) THEN 0 ELSE (Len(seqs[i]) - 1) + SumLenMinusOne(seqs, i + 1)

\* Line 122.
EndNodeId(seqs) == SumLenMinusOne(seqs, 1) + 1

\* Lines 133-138, 163-168, 171-176: the self-loops of one node.
SelfLoops(node, kw) ==
    (IF kw.disfluency
     THEN LET ds == sorted(kw.disfluencies)
          IN  [i \in 1..Len(ds) |-> <<node, node, ds[i], ds[i], 0>>]
     ELSE <<>>)
    \o (IF kw.conservative THEN << <<node, node, OOV_TERM, OOV_TERM, 0>> >> ELSE <<>>)

\* Lines 148-168: the walk over the words of seq from position i (1-based) on.
\* t holds the locals cur_node_id, next_node_id, next_available_node_id, output.
RECURSIVE Walk(_, _, _, _, _)
Walk(t, seq, i, kw, end) ==
    LET out1 == t.output \o << <<t.cur_node_id, t.next_node_id, seq[i], seq[i], WordWeight>>,
                               <<t.cur_node_id, t.next_node_id, OOV_TERM, OOV_TERM, 0>> >>
    IN  IF i = Len(seq) THEN [t EXCEPT !.output = out1]
        ELSE LET t1 == IF i = Len(seq) - 1
                       THEN [t EXCEPT !.cur_node_id = t.next_node_id,
                                      !.next_node_id = end]
                       ELSE [t EXCEPT !.cur_node_id = t.next_node_id,
                                      !.next_node_id = t.next_available_node_id,
                                      !.next_available_node_id = @ + 1]
             IN  Walk([t1 EXCEPT !.output = out1 \o SelfLoops(t1.cur_node_id, kw)],
                      seq, i + 1, kw, end)

\* Lines 131-146: the start node and the first target of a sequence.
EnterSequence(t, seq, kw, end) ==
    LET t1 == [t EXCEPT !.cur_node_id = 0,
                        !.output = IF t.start_node_flag THEN @ \o SelfLoops(0, kw) ELSE @,
                        !.start_node_flag = FALSE]
    IN  IF Len(seq) = 1
        THEN [t1 EXCEPT !.next_node_id = end]
        ELSE [t1 EXCEPT !.next_node_id = t1.next_available_node_id,
                        !.next_available_node_id = @ + 1]

\* LeaveSequence without end_node_flag: the loops are emitted per sequence.
LeaveSequenceEvery(t, kw, end) == [t EXCEPT !.output = @ \o SelfLoops(end, kw)]

\* Lines 170-178: the self-loops of the end node, once.
LeaveSequence(t, kw, end) ==
    [t EXCEPT !.output = IF t.end_node_flag THEN @ \o SelfLoops(end, kw) ELSE @,
              !.end_node_flag = FALSE]

\* Lines 127-178: the body of the loop for one sequence.
ChainSequence(t, seq, kw, end) ==
    IF Len(seq) = 0 THEN t
    ELSE LeaveSequence(Walk(EnterSequence(t, seq, kw, end), seq, 1, kw, end), kw, end)

\* Python's order of the edge tuples (int, int, str, str, float).
EdgeLess(x, y) ==
    \/ x[1] < y[1]
    \/ x[1] = y[1] /\ x[2] < y[2]
    \/ x[1] = y[1] /\ x[2] = y[2] /\ WordLess(x[3], y[3])
    \/ x[1] = y[1] /\ x[2] = y[2] /\ x[3] = y[3] /\ WordLess(x[4], y[4])
    \/ x[1] = y[1] /\ x[2] = y[2] /\ x[3] = y[3] /\ x[4] = y[4] /\ x[5] < y[5]

\* Line 182: output.sort().  The sort is stable: the element at index i goes
\* behind the elements smaller than it and the equal ones before it.
SortEdges(s) ==
    LET Before(i) == {j \in 1..Len(s) : EdgeLess(s[j], s[i]) \/ (s[j] = s[i] /\ j < i)}
    IN  [k \in 1..Len(s) |-> s[CHOOSE i \in 1..Len(s) : Cardinality(Before(i)) = k - 1]]

\* Lines 127-178: the loop over the sequences seqs[i..].
RECURSIVE ChainSequences(_, _, _, _, _)
ChainSequences(t, seqs, i, kw, end) ==
    IF i > Len(seqs) THEN t
    ELSE ChainSequences(ChainSequence(t, seqs[i], kw, end), seqs, i + 1, kw, end)

NoText == [edges |-> <<>>, final |-> 0]

\* Lines 180-187: the assertion on the node count, then the sorted text.
Finalize(t, end) ==
    IF end = t.next_available_node_id
    THEN [raised |-> "none", built |-> TRUE,
          text |-> [edges |-> SortEdges(t.output), final |-> end]]
    ELSE [raised |-> "AssertionError", built |-> FALSE, text |-> NoText]

\* Lines 120-126.
InitialLocals ==
    [cur_node_id |-> 0, next_node_id |-> 0, next_available_node_id |-> 1,
     output |-> <<>>, start_node_flag |-> TRUE, end_node_flag |-> TRUE]

\* make_transcript_fst as a function of its arguments.
TranscriptFst(arg_, kw) ==
    LET seqs == Normalize(arg_)
        end == EndNodeId(seqs)
    IN  Finalize(ChainSequences(InitialLocals, seqs, 1, kw, end), end)

\* ------------------------------------------------------------------ state
VARIABLES
    entry,                  \* the function called
    arg,                    \* its word_sequences argument, as passed
    kwargs,                 \* its keyword arguments
    pc,                     \* the position in the code
    word_sequences,         \* the argument after lines 32-33 / 111-112
    idx,                    \* the sequences done by the loop over word_sequences
    bigrams,                \* make_bigram_lm_fst: word -> set of successors
    node_ids,               \* make_bigram_lm_fst: the dict of get_node_id
    end_node_id,            \* make_transcript_fst, line 122
    locals,                 \* make_transcript_fst: cur_node_id, next_node_id, ...
    txt_fst,                \* the text a builder returned
    built,                  \* a builder has returned its text
    txt_fst_file,           \* the temporary file of line 202 on disk
    hclg_file,              \* the output graph file on disk
    exc,                    \* the exception caught at line 220
    returned,               \* make_bigram_language_model returned hclg_filename
    raised                  \* the exception that left the function called

vars == <<entry, arg, kwargs, pc, word_sequences, idx, bigrams, node_ids, end_node_id,
          locals, txt_fst, built, txt_fst_file, hclg_file, exc, returned, raised>>

Init ==
    /\ entry \in Entries
    /\ arg \in Arguments
    /\ kwargs \in Kwargs
    /\ word_sequences = Normalize(arg)
    /\ idx = 0
    /\ pc = IF entry = "make_transcript_fst" THEN "chain" ELSE "scan"
    /\ bigrams = InitialBigrams
    /\ node_ids = <<>>
    /\ end_node_id = EndNodeId(Normalize(arg))
    /\ locals = InitialLocals
    /\ txt_fst = NoText
    /\ built = FALSE
    /\ txt_fst_file = "absent"
    /\ hclg_file = "absent"
    /\ exc = "none"
    /\ returned = FALSE
    /\ raised = "none"

\* ---------------------------------------------------------------- actions
\* make_bigram_lm_fst, lines 41-70: one iteration of the loop.
Scan ==
    /\ pc = "scan"
    /\ idx < Len(word_sequences)
    /\ bigrams' = ScanSequence(bigrams, word_sequences[idx + 1], kwargs)
    /\ idx' = idx + 1
    /\ UNCHANGED <<entry, arg, kwargs, pc, word_sequences, node_ids, end_node_id, locals,
                   txt_fst, built, txt_fst_file, hclg_file, exc, returned, raised>>

\* make_bigram_lm_fst, lines 72-95: number the words, emit the edges, return.
Emit ==
    /\ pc = "scan"
    /\ idx = Len(word_sequences)
    /\ LET text == BigramText(bigrams)
       IN  /\ node_ids' = text.ids
           /\ txt_fst' = [edges |-> text.edges, final |-> text.final]
    /\ built' = TRUE
    /\ pc' = IF entry = "make_bigram_language_model" THEN "write" ELSE "done"
    /\ UNCHANGED <<entry, arg, kwargs, word_sequences, idx, bigrams, end_node_id, locals,
                   txt_fst_file, hclg_file, exc, returned, raised>>

\* make_transcript_fst, lines 127-178: one iteration of the loop.
Chain ==
    /\ pc = "chain"
    /\ idx < Len(word_sequences)
    /\ locals' = ChainSequence(locals, word_sequences[idx + 1], kwargs, end_node_id)
    /\ idx' = idx + 1
    /\ UNCHANGED <<entry, arg, kwargs, pc, word_sequences, bigrams, node_ids, end_node_id,
                   txt_fst, built, txt_fst_file, hclg_file, exc, returned, raised>>

\* make_transcript_fst, lines 180-187: assert, sort, serialize, return.
Finish ==
    /\ pc = "chain"
    /\ idx = Len(word_sequences)
    /\ LET r == Finalize(locals, end_node_id)
       IN  /\ txt_fst' = r.text
           /\ built' = r.built
           /\ raised' = r.raised
    /\ pc' = "done"
    /\ UNCHANGED <<entry, arg, kwargs, word_sequences, idx, bigrams, node_ids, end_node_id,
                   locals, txt_fst_file, hclg_file, exc, returned>>

\* make_bigram_language_model, lines 202-207: the text is written to a
\* temporary file that outlives its handle (delete=False).
WriteTemp ==
    /\ pc = "write"
    /\ txt_fst_file' = "present"
    /\ pc' = "compile"
    /\ UNCHANGED <<entry, arg, kwargs, word_sequences, idx, bigrams, node_ids, end_node_id,
                   locals, txt_fst, built, hclg_file, exc, returned, raised>>

\* Lines 209-220: the external graph compiler runs.  It ends normally and
\* leaves the graph file, or fails, with or without a partial graph file.
Compile ==
    /\ pc = "compile"
    /\ \/ /\ hclg_file' = "present"
          /\ exc' = "none"
          /\ pc' = "finally"
       \/ /\ hclg_file' \in {"absent", "present"}
          /\ exc' = "CompilerFailure"
          /\ pc' = "except"
    /\ UNCHANGED <<entry, arg, kwargs, word_sequences, idx, bigrams, node_ids, end_node_id,
                   locals, txt_fst, built, txt_fst_file, returned, raised>>

\* Lines 220-225: the handler removes the graph file; a failure of the
\* removal is passed over (except: pass), then e is raised again.
Except ==
    /\ pc = "except"
    /\ \/ /\ hclg_file = "present"
          /\ hclg_file' = "absent"
       \/ UNCHANGED hclg_file
    /\ pc' = "finally"
    /\ UNCHANGED <<entry, arg, kwargs, word_sequences, idx, bigrams, node_ids, end_node_id,
                   locals, txt_fst, built, txt_fst_file, exc, returned, raised>>

\* Lines 226-229: os.unlink(txt_fst_file.name) in the finally clause.  When
\* it succeeds the pending exception goes on, or the function returns; when
\* it raises, its OSError is what leaves the function.
Finally ==
    /\ pc = "finally"
    /\ \/ /\ txt_fst_file' = "absent"
          /\ raised' = exc
          /\ returned' = (exc = "none")
       \/ /\ raised' = "OSError"
          /\ UNCHANGED <<txt_fst_file, returned>>
    /\ pc' = "done"
    /\ UNCHANGED <<entry, arg, kwargs, word_sequences, idx, bigrams, node_ids, end_node_id,
                   locals, txt_fst, built, hclg_file, exc>>

Next == Scan \/ Emit \/ Chain \/ Finish \/ WriteTemp \/ Compile \/ Except \/ Finally

Spec == Init /\ [][Next]_vars

\* ----------------------------------------------------------------- claims
AllWords == {CodePointOrder[i] : i \in 1..Len(CodePointOrder)}

FlagsOff == ~kwargs.conservative /\ ~kwargs.disfluency

NonEmptyOnly(seqs) == SelectSeq(seqs, LAMBDA s : Len(s) > 0)

HasEmpty(a) == a.kind = "lists" /\ \E i \in 1..Len(a.seqs) : Len(a.seqs[i]) = 0

WithoutEmpty(a) == [a EXCEPT !.seqs = NonEmptyOnly(@)]

\* C1: each builder, given a set that holds empty sequences, completes and
\* returns what it returns for the set with the empty sequences removed.
C1_EmptySequencesSkipped ==
    (pc = "done" /\ HasEmpty(arg)) =>
        /\ entry = "make_bigram_lm_fst" =>
              built /\ txt_fst = BigramFst(WithoutEmpty(arg), kwargs)
        /\ entry = "make_transcript_fst" =>
              /\ built
              /\ raised = "none"
              /\ TranscriptFst(WithoutEmpty(arg), kwargs).built
              /\ txt_fst = TranscriptFst(WithoutEmpty(arg), kwargs).text

\* sum(max(len(seq) - 1, 0) for seq in seqs[i..]).
RECURSIVE SumIntermediate(_, _)
SumIntermediate(seqs, i) ==
    IF i > Len(seqs) THEN 0
    ELSE (IF Len(seqs[i]) > 1 THEN Len(seqs[i]) - 1 ELSE 0) + SumIntermediate(seqs, i + 1)

\* C2: when make_transcript_fst has processed all sequences, the number of
\* intermediate ids allocated equals sum(max(len - 1, 0)) and equals the
\* precomputed end node id minus 1, so the assertion passes and the final
\* line names node 1 + sum(max(len - 1, 0)).
C2_NodeCount ==
    (pc = "done" /\ entry = "make_transcript_fst") =>
        /\ locals.next_available_node_id - 1 = SumIntermediate(word_sequences, 1)
        /\ end_node_id - 1 = SumIntermediate(word_sequences, 1)
        /\ raised = "none"
        /\ built
        /\ txt_fst.final = 1 + SumIntermediate(word_sequences, 1)

EdgeSet(text) == {text.edges[i] : i \in 1..Len(text.edges)}

\* The (node, label string) pairs reached from P over one more edge.
PathStep(text, P) ==
    {<<pe[2][2], Append(pe[1][2], pe[2][3])>> :
        pe \in {x \in P \X EdgeSet(text) : x[2][1] = x[1][1]}}

\* The (node, label string) pairs reached from node 0 over exactly k edges.
RECURSIVE Paths(_, _)
Paths(text, k) == IF k = 0 THEN {<<0, <<>> >>} ELSE PathStep(text, Paths(text, k - 1))

\* The label strings of at most n words the transducer accepts.
Accepted(text, n) ==
    {p[2] : p \in {q \in UNION {Paths(text, k) : k \in 0..n} : q[1] = text.final}}

\* A sequence with any of its words replaced by the OOV token.
Variants(seq) ==
    {t \in [1..Len(seq) -> AllWords] : \A i \in 1..Len(seq) : t[i] \in {seq[i], OOV_TERM}}

Expected(seqs) == UNION {Variants(seqs[i]) : i \in {j \in 1..Len(seqs) : Len(seqs[j]) > 0}}

\* The longest string looked at: one word more than any input holds.
PathBound == MaxWords + 2

\* What the caller can have accepted: nothing when no transducer is emitted.
Emitted == IF built THEN Accepted(txt_fst, PathBound) ELSE {}

\* C3: with both flags off, the transducer make_transcript_fst emits accepts
\* exactly the strings that follow one non-empty sequence of the input word
\* by word, each word kept or replaced by the OOV token.
C3_ExactLanguage ==
    (pc = "done" /\ entry = "make_transcript_fst" /\ FlagsOff) =>
        Emitted = Expected(word_sequences)

\* The word a node id stands for: the label of an edge into it.
NodeWord(text, id) == CHOOSE w \in AllWords : \E e \in EdgeSet(text) : e[2] = id /\ e[3] = w

\* The text of the bigram graph read back as a relation over words.
ReadBack(text) == {<<NodeWord(text, e[1]), e[3]>> : e \in EdgeSet(text)}

Adjacency(seqs) ==
    LET ne == {i \in 1..Len(seqs) : Len(seqs[i]) > 0}
    IN  {<<OOV_TERM, OOV_TERM>>}
        \cup {<<OOV_TERM, seqs[i][1]>> : i \in ne}
        \cup UNION {{<<seqs[i][j], seqs[i][j + 1]>> : j \in 1..(Len(seqs[i]) - 1)} : i \in ne}
        \cup {<<seqs[i][Len(seqs[i])], OOV_TERM>> : i \in ne}

NonEmptyInput == arg.kind = "flat" \/ Len(arg.seqs) > 0

\* C4: for a non-empty input with both flags off, the edges of the bigram
\* graph, read back as a relation over words, are exactly OOV -> OOV,
\* OOV -> first word, prev -> word and last word -> OOV.
C4_BigramAdjacency ==
    (pc = "done" /\ entry = "make_bigram_lm_fst" /\ FlagsOff /\ NonEmptyInput) =>
        built /\ ReadBack(txt_fst) = Adjacency(word_sequences)

C4_Witness ==
    /\ pc = "done" /\ entry = "make_bigram_lm_fst" /\ FlagsOff /\ built
    /\ arg.kind = "lists" /\ Len(arg.seqs) = 2
    /\ Len(arg.seqs[1]) = 2 /\ Len(arg.seqs[2]) = 2
    /\ arg.seqs[1] # arg.seqs[2]
    /\ Cardinality(ReadBack(txt_fst)) >= 5

HelloWorld == [kind |-> "lists", words |-> <<>>, seqs |-> << <<"hello", "world">> >>]

\* The nodes and the (source word, target word, weight) triples of a text.
NodesOf(text) == {NodeWord(text, e[1]) : e \in EdgeSet(text)} \cup {e[3] : e \in EdgeSet(text)}

TriplesOf(text) == {<<NodeWord(text, e[1]), e[3], e[5]>> : e \in EdgeSet(text)}

\* C5 as stated: for [["hello", "world"]] with both flags off the bigram
\* graph has the nodes OOV, hello, world and exactly the edges OOV -> hello,
\* hello -> world, world -> OOV, each of weight 0.0.
C5_HelloWorldAsStated ==
    (pc = "done" /\ entry = "make_bigram_lm_fst" /\ FlagsOff /\ arg = HelloWorld) =>
        /\ NodesOf(txt_fst) = {OOV_TERM, "hello", "world"}
        /\ TriplesOf(txt_fst) = {<<OOV_TERM, "hello", 0>>, <<"hello", "world", 0>>,
                                 <<"world", OOV_TERM, 0>>}

\* C5, amended: for [["hello", "world"]] with both flags off the bigram graph
\* has the nodes OOV, hello, world and exactly the edges OOV -> OOV and
\* OOV -> hello, each of weight ln 2 (OOV has two successors), and
\* hello -> world and world -> OOV, each of weight 0.0.
C5_HelloWorld ==
    (pc = "done" /\ entry = "make_bigram_lm_fst" /\ FlagsOff /\ arg = HelloWorld) =>
        /\ built
        /\ Len(txt_fst.edges) = 4
        /\ NodesOf(txt_fst) = {OOV_TERM, "hello", "world"}
        /\ TriplesOf(txt_fst) = {<<OOV_TERM, OOV_TERM, LnMicro[2]>>,
                                 <<OOV_TERM, "hello", LnMicro[2]>>,
                                 <<"hello", "world", 0>>, <<"world", OOV_TERM, 0>>}

C5_Witness ==
    pc = "done" /\ entry = "make_bigram_lm_fst" /\ FlagsOff /\ arg = HelloWorld /\ built

\* make_bigram_lm_fst has just returned, to its caller or to line 200.
BigramBuilt ==
    /\ built
    /\ \/ entry = "make_bigram_lm_fst" /\ pc = "done"
       \/ entry = "make_bigram_language_model" /\ pc = "write"

\* The n with exp(-weight) = 1/n.
Denominator(weight) == CHOOSE n \in 1..Len(LnMicro) : LnMicro[n] = weight

\* C6: in the bigram graph every source node with N distinct successors has
\* exactly N outgoing edges, one per successor, each of weight -ln(1/N), so
\* the probabilities 1/N of its edges sum to 1.
C6_UniformWeights ==
    BigramBuilt =>
        /\ \A e \in EdgeSet(txt_fst) :
              \E w \in DOMAIN bigrams : HasKey(node_ids, w) /\ Lookup(node_ids, w) = e[1]
        /\ \A w \in DOMAIN bigrams :
              LET N == Cardinality(bigrams[w])
                  out == {i \in 1..Len(txt_fst.edges) :
                             txt_fst.edges[i][1] = Lookup(node_ids, w)}
              IN  /\ HasKey(node_ids, w)
                  /\ N > 0
                  /\ Cardinality(out) = N
                  /\ {txt_fst.edges[i][3] : i \in out} = bigrams[w]
                  /\ Cardinality({txt_fst.edges[i][2] : i \in out}) = N
                  /\ \A i \in out : /\ txt_fst.edges[i][5] = LnMicro[N]
                                    /\ Denominator(txt_fst.edges[i][5]) = Cardinality(out)

C6_Witness ==
    /\ BigramBuilt /\ kwargs.conservative /\ kwargs.disfluency
    /\ \E w \in DOMAIN bigrams : Cardinality(bigrams[w]) = 5
    /\ \E w \in DOMAIN bigrams : Cardinality(bigrams[w]) = 3

AllNonEmpty == \A i \in 1..Len(word_sequences) : Len(word_sequences[i]) > 0

\* The self-loops of a node that carry a label.
Loops(text, node, label) ==
    {i \in 1..Len(text.edges) :
        text.edges[i][1] = node /\ text.edges[i][2] = node /\ text.edges[i][3] = label}

\* C9: when every sequence is non-empty, each node of the transcript graph,
\* the start node 0, the intermediate nodes and the end node, carries one OOV
\* self-loop if conservative is set and none otherwise, and one self-loop
\* per disfluency word if disfluency is set and none otherwise.
C9_SelfLoops ==
    (pc = "done" /\ entry = "make_transcript_fst" /\ AllNonEmpty) =>
        /\ built
        /\ \A e \in EdgeSet(txt_fst) : e[1] \in 0..txt_fst.final /\ e[2] \in 0..txt_fst.final
        /\ \A n \in 0..txt_fst.final :
              /\ \E e \in EdgeSet(txt_fst) : e[1] = n \/ e[2] = n
              /\ \A l \in AllWords :
                    Cardinality(Loops(txt_fst, n, l)) =
                        (IF kwargs.conservative /\ l = OOV_TERM THEN 1 ELSE 0)
                        + (IF kwargs.disfluency /\ l \in kwargs.disfluencies THEN 1 ELSE 0)

C9_Witness ==
    /\ pc = "done" /\ entry = "make_transcript_fst" /\ AllNonEmpty /\ built
    /\ kwargs.conservative /\ kwargs.disfluency /\ kwargs.disfluencies # {}
    /\ Len(word_sequences) >= 2
    /\ txt_fst.final >= 3

GraphWords == DOMAIN bigrams \cup UNION {bigrams[w] : w \in DOMAIN bigrams}

\* The position of the first call of get_node_id for a word, among the calls.
FirstUse(uses, w) ==
    CHOOSE i \in 1..Len(uses) : uses[i] = w /\ \A j \in 1..(i - 1) : uses[j] # w

\* C10: every word of the bigram graph has exactly one node id, the ids are
\* exactly 1..n, they are handed out in increasing order of first use in the
\* walk over the sorted source words and their sorted successors, and the
\* final line names n.
C10_NodeIds ==
    BigramBuilt =>
        LET uses == WalkOrder(bigrams, sorted(DOMAIN bigrams), 1)
            first == [w \in GraphWords |-> FirstUse(uses, w)]
        IN  /\ {node_ids[i].word : i \in 1..Len(node_ids)} = GraphWords
            /\ \A i, j \in 1..Len(node_ids) : node_ids[i].word = node_ids[j].word => i = j
            /\ {node_ids[i].id : i \in 1..Len(node_ids)} = 1..Cardinality(GraphWords)
            /\ \A i, j \in 1..Len(node_ids) :
                  i < j => /\ node_ids[i].id < node_ids[j].id
                           /\ first[node_ids[i].word] < first[node_ids[j].word]
            /\ txt_fst.final = Cardinality(GraphWords)
            /\ \A e \in EdgeSet(txt_fst) :
                  /\ e[2] = Lookup(node_ids, e[3])
                  /\ e[1] \in 1..Cardinality(GraphWords)

C10_Witness ==
    /\ BigramBuilt /\ Len(node_ids) = 5
    /\ arg.kind = "lists" /\ Len(arg.seqs) >= 2

\* C7: once the temporary text file is written, it is removed on every exit
\* path: when the compiler succeeds the file is deleted and the graph path
\* is returned with the graph kept, and when it fails the file is deleted
\* and the compiler's failure is what the caller receives.
C7_TempFileRemoved ==
    (pc = "done" /\ entry = "make_bigram_language_model") =>
        /\ txt_fst_file = "absent"
        /\ exc = "none" => (returned /\ raised = "none" /\ hclg_file = "present")
        /\ exc = "CompilerFailure" => (~returned /\ raised = "CompilerFailure")

\* C8: when the compiler fails and the removal of the graph file or of the
\* temporary text file fails too, the caller receives the compiler's failure.
C8_CleanupFailureSwallowed ==
    (/\ pc = "done" /\ entry = "make_bigram_language_model"
     /\ exc = "CompilerFailure"
     /\ (txt_fst_file = "present" \/ hclg_file = "present")) =>
        raised = "CompilerFailure"

====
